---- MODULE Spec2Model ----
(***************************************************************************)
(* Model of the intent-matching engine (src/nlp_engine.py, class NlpEngine) *)
(* and of the WebSocket chat loop that consumes it (src/main.py).          *)
(*                                                                         *)
(* A text is a sequence of surface tokens; the spaCy pipeline is modelled  *)
(* by the tables Lower, Lemma, IsStop, IsPunct and IsSpace.  An intent     *)
(* returned by the engine is identified by its position in the catalog     *)
(* (Python returns the very dict object of self.intents); 0 stands for     *)
(* None.  A score is the exact fraction <<intersection, union>>.           *)
(***************************************************************************)
EXTENDS Integers, Sequences, FiniteSets, TLC

VARIABLES source, nlp, intents, engine, call, ws

vars == <<source, nlp, intents, engine, call, ws>>

(***************************************************************************)
(* Bounds of the model.                                                    *)
(***************************************************************************)
MaxIntents == 2
MaxResponses == 2
MaxMessages == 2
NumSessions == 2

None == 0

(***************************************************************************)
(* Generic helpers.                                                        *)
(***************************************************************************)
Range(s) == {s[i] : i \in 1..Len(s)}

SeqsUpTo(S, n) == UNION {[1..k -> S] : k \in 0..n}

(***************************************************************************)
(* The spaCy pipeline: text.lower(), tokenisation, lemma_, is_stop,        *)
(* is_punct and token.text.strip().                                        *)
(***************************************************************************)
Lower(tok) ==
    CASE tok = "Opening" -> "opening"
      [] tok = "OPEN" -> "open"
      [] OTHER -> tok

Lemma(tok) ==
    CASE tok = "opening" -> "open"
      [] tok = "hours" -> "hour"
      [] OTHER -> tok

IsStop(tok) == tok \in {"the", "are"}

IsPunct(tok) == tok \in {"?"}

IsSpace(tok) == tok \in {" "}

(* a pipeline that keeps the tokens of the messages still being answered *)
preprocess_text_shared(nlp_, text) ==
    IF ~nlp_ THEN {}
    ELSE {Lemma(Lower(text[i])) : i \in {j \in 1..Len(text) :
              /\ ~IsStop(Lower(text[j]))
              /\ ~IsPunct(Lower(text[j]))
              /\ ~IsSpace(Lower(text[j]))}}
         \cup UNION {{Lemma(Lower(ws[s].user_msg[i])) : i \in 1..Len(ws[s].user_msg)} :
                        s \in {t \in 1..NumSessions : ws[t].pc \in {"gemini", "send"}}}

(* NlpEngine._preprocess_text *)
preprocess_text(nlp_, text) ==
    IF ~nlp_ THEN {}
    ELSE {Lemma(Lower(text[i])) : i \in {j \in 1..Len(text) :
              /\ ~IsStop(Lower(text[j]))
              /\ ~IsPunct(Lower(text[j]))
              /\ ~IsSpace(Lower(text[j]))}}

(***************************************************************************)
(* Scores: exact fractions <<numerator, denominator>>, denominator > 0.    *)
(* The code divides two small integers in IEEE doubles, which is           *)
(* correctly rounded, so float comparison agrees with the comparison of    *)
(* the fractions; 0.25 is exactly representable.                           *)
(***************************************************************************)
Zero == <<0, 1>>

Gt(a, b) == a[1] * b[2] > b[1] * a[2]

Ge(a, b) == a[1] * b[2] >= b[1] * a[2]

Eq(a, b) == a[1] * b[2] = b[1] * a[2]

CONFIDENCE_THRESHOLD == <<1, 4>>

(* lines 41-43: the score of one pattern *)
PatternScore(user_keywords, pattern_keywords) ==
    LET intersection == Cardinality(user_keywords \cap pattern_keywords)
        union == Cardinality(user_keywords \cup pattern_keywords)
    IN  IF union > 0 THEN <<intersection, union>> ELSE Zero

(* the pattern scores added up instead of the largest kept *)
KeepPatternScoreSum(score, max_pattern_score) ==
    <<score[1] * max_pattern_score[2] + max_pattern_score[1] * score[2],
      score[2] * max_pattern_score[2]>>

(* line 45: the running maximum over the patterns of one intent *)
KeepPatternScore(score, max_pattern_score) ==
    IF Gt(score, max_pattern_score) THEN score ELSE max_pattern_score

(* lines 36-45: the inner loop over intent['patterns'] *)
RECURSIVE ScanPatterns(_, _, _, _, _)
ScanPatterns(nlp_, user_keywords, patterns, i, max_pattern_score) ==
    IF i > Len(patterns) THEN max_pattern_score
    ELSE LET pattern_keywords == preprocess_text(nlp_, patterns[i])
         IN  IF pattern_keywords = {}
             THEN ScanPatterns(nlp_, user_keywords, patterns, i + 1, max_pattern_score)
             ELSE ScanPatterns(nlp_, user_keywords, patterns, i + 1,
                      KeepPatternScore(PatternScore(user_keywords, pattern_keywords),
                                       max_pattern_score))

(* a later intent replaces the best match on an equal score too *)
ReplacesBestOrTie(max_pattern_score, best_match_score) ==
    Ge(max_pattern_score, best_match_score)

(* line 49: does this intent replace the best match so far *)
ReplacesBest(max_pattern_score, best_match_score) ==
    Gt(max_pattern_score, best_match_score)

(* lines 35-51: the outer loop over self.intents *)
RECURSIVE ScanIntents(_, _, _, _, _)
ScanIntents(nlp_, user_keywords, intents_, i, acc) ==
    IF i > Len(intents_) THEN acc
    ELSE LET max_pattern_score ==
                 ScanPatterns(nlp_, user_keywords, intents_[i].patterns, 1, Zero)
             scored == Append(acc.scores, max_pattern_score)
         IN  IF ReplacesBest(max_pattern_score, acc.best_match_score)
             THEN ScanIntents(nlp_, user_keywords, intents_, i + 1,
                      [scores |-> scored,
                       best_match_score |-> max_pattern_score,
                       best_match_intent |-> i])
             ELSE ScanIntents(nlp_, user_keywords, intents_, i + 1,
                      [acc EXCEPT !.scores = scored])

(* the first intent of the catalog stands in for a missing fallback *)
FallbackIntentOrFirst(intents_) ==
    IF \E i \in 1..Len(intents_) : intents_[i].tag = "fallback"
    THEN CHOOSE i \in 1..Len(intents_) :
             /\ intents_[i].tag = "fallback"
             /\ \A j \in 1..(i - 1) : intents_[j].tag # "fallback"
    ELSE 1

(* the last intent tagged 'fallback' instead of the first *)
FallbackIntentLast(intents_) ==
    IF \E i \in 1..Len(intents_) : intents_[i].tag = "fallback"
    THEN CHOOSE i \in 1..Len(intents_) :
             /\ intents_[i].tag = "fallback"
             /\ \A j \in (i + 1)..Len(intents_) : intents_[j].tag # "fallback"
    ELSE None

(* lines 27 and 62: next((i for i in self.intents if i['tag'] == 'fallback'), None) *)
FallbackIntent(intents_) ==
    IF \E i \in 1..Len(intents_) : intents_[i].tag = "fallback"
    THEN CHOOSE i \in 1..Len(intents_) :
             /\ intents_[i].tag = "fallback"
             /\ \A j \in 1..(i - 1) : intents_[j].tag # "fallback"
    ELSE None

(* an exclusive threshold *)
IsConfidentStrict(best_match_score) == Gt(best_match_score, CONFIDENCE_THRESHOLD)

(* line 56: the confidence test *)
IsConfident(best_match_score) == Ge(best_match_score, CONFIDENCE_THRESHOLD)

(* what a call that stops before the scoring loop leaves behind *)
NotScored(user_keywords, branch, result) ==
    [user_keywords |-> user_keywords, scores |-> <<>>,
     best_match_score |-> Zero, best_match_intent |-> None,
     branch |-> branch, result |-> result]

(* NlpEngine.get_intent *)
get_intent(nlp_, intents_, user_message) ==
    IF intents_ = <<>> THEN NotScored({}, "no_intents", None)
    ELSE LET user_keywords == preprocess_text(nlp_, user_message)
         IN  IF user_keywords = {}
             THEN NotScored(user_keywords, "no_keywords", FallbackIntent(intents_))
             ELSE LET scan == ScanIntents(nlp_, user_keywords, intents_, 1,
                                  [scores |-> <<>>, best_match_score |-> Zero,
                                   best_match_intent |-> None])
                  IN  IF IsConfident(scan.best_match_score)
                      THEN [user_keywords |-> user_keywords,
                            scores |-> scan.scores,
                            best_match_score |-> scan.best_match_score,
                            best_match_intent |-> scan.best_match_intent,
                            branch |-> "confident",
                            result |-> scan.best_match_intent]
                      ELSE [user_keywords |-> user_keywords,
                            scores |-> scan.scores,
                            best_match_score |-> scan.best_match_score,
                            best_match_intent |-> scan.best_match_intent,
                            branch |-> "below_threshold",
                            result |-> FallbackIntent(intents_)]

(***************************************************************************)
(* NlpEngine.get_response.  The argument is <<>> for None and <<intent>>   *)
(* for an intent.  The 'responses' entry of a loaded record is whatever    *)
(* the JSON source held: absent, null, a number, or a list of strings.     *)
(* The value is the set of outcomes of the call, one per choice the        *)
(* random source can make.                                                 *)
(***************************************************************************)
APOLOGY == "I'm sorry, I'm having trouble understanding right now."

Returns(v) == [kind |-> "return", value |-> v]

Raises(e) == [kind |-> "raise", value |-> e]

(* line 65: not intent['responses'] *)
IsFalsy(responses) ==
    \/ responses.kind = "null"
    \/ responses.kind = "list" /\ responses.items = <<>>

(* line 66: random.choice(intent['responses']) *)
random_choice(responses) ==
    IF responses.kind = "list"
    THEN {Returns(responses.items[i]) : i \in 1..Len(responses.items)}
    ELSE {Raises("TypeError")}

get_response(intent) ==
    IF intent = <<>> THEN {Returns(APOLOGY)}
    ELSE IF intent[1].responses.kind = "missing" THEN {Raises("KeyError")}
    ELSE IF IsFalsy(intent[1].responses) THEN {Returns(APOLOGY)}
    ELSE random_choice(intent[1].responses)

(***************************************************************************)
(* NlpEngine.__init__ and the module-level construction in main.py.        *)
(* src is what the constructor finds: whether spacy.load succeeds, and     *)
(* whether the intents file opens and parses to a document with an         *)
(* 'intents' entry (content).                                              *)
(***************************************************************************)
FileStates == {"ok", "missing", "malformed"}

(* lines 10-17 *)
Construct(spacy_ok, file, content) ==
    IF spacy_ok /\ file = "ok"
    THEN [nlp |-> TRUE, intents |-> content, raised |-> FALSE]
    ELSE [nlp |-> FALSE, intents |-> <<>>, raised |-> FALSE]

(* main.py lines 67-72 *)
EngineInit(spacy_ok, file, content) ==
    LET e == Construct(spacy_ok, file, content)
    IN  IF e.raised
        THEN [engine |-> "absent", nlp |-> FALSE, intents |-> <<>>]
        ELSE [engine |-> "present", nlp |-> e.nlp, intents |-> e.intents]

(***************************************************************************)
(* Inputs.                                                                 *)
(***************************************************************************)
Tags == {"hours", "pricing", "fallback"}

OPENING_HOURS == <<"Opening", "hours", "?">>

OPEN_PRICING_SHIPPING == <<"open", "pricing", "shipping">>

THE == <<"the", "?">>

(* the values of intent['patterns'] *)
PatternLists ==
    { <<>>,
      <<OPENING_HOURS>>,
      <<OPEN_PRICING_SHIPPING>>,
      <<THE>>,
      <<OPENING_HOURS, OPEN_PRICING_SHIPPING>>,
      <<OPEN_PRICING_SHIPPING, OPENING_HOURS>>,
      <<THE, OPEN_PRICING_SHIPPING, THE>> }

UserMessages ==
    { <<>>,
      <<"the", "?">>,
      <<" ", "?">>,
      <<"OPEN">>,
      <<"open", "payment">>,
      <<"are", "Opening", "hours", "payment">>,
      <<"payment">>,
      <<"hours", "the", "payment", "payment">>,
      <<"pricing", "shipping", "?">> }

ResponseStrings == {"We are open 9 to 5.", "Prices start at 10."}

Missing == [kind |-> "missing", items |-> <<>>]

Null == [kind |-> "null", items |-> <<>>]

Number == [kind |-> "number", items |-> <<>>]

List(items) == [kind |-> "list", items |-> items]

ResponseLists == {List(s) : s \in SeqsUpTo(ResponseStrings, MaxResponses)}

ResponseShapes == {Missing, Null, Number} \cup ResponseLists

(* the records the classification is exercised on *)
ScoredIntents ==
    [tag : Tags, patterns : PatternLists,
     responses : {List(<<"We are open 9 to 5.">>)}]

Catalogs == SeqsUpTo(ScoredIntents, MaxIntents)

(* the catalogs the chat loop and get_response are exercised on *)
Hours(responses) ==
    [tag |-> "hours", patterns |-> <<OPENING_HOURS>>,
     responses |-> responses]

Fallback(responses) ==
    [tag |-> "fallback", patterns |-> <<>>, responses |-> responses]

SampleCatalogs ==
    { <<>>,
      << Hours(List(<<"We are open 9 to 5.", "Prices start at 10.">>)),
         Fallback(List(<<"We are open 9 to 5.">>)) >>,
      << Hours(List(<<>>)), Fallback(Null) >>,
      << Fallback(List(<<"Prices start at 10.">>)), Hours(Missing) >>,
      << Hours(Number) >> }

ChatMessages == { <<>>, <<"OPEN">>, <<"payment">> }

(* the arguments get_response is exercised on *)
ResponseArgs ==
    {<<>>} \cup {<<r>> : r \in [tag : Tags, patterns : {<<>>}, responses : ResponseShapes]}

(***************************************************************************)
(* State after construction, and the engine's two public operations.       *)
(***************************************************************************)
NoCall == [op |-> "none"]

NoReply == [source |-> "none", text |-> ""]

(* a connection nobody has opened yet *)
Idle ==
    [pc |-> "idle", user_msg |-> <<>>, intent_tag |-> "unknown",
     matched_intent |-> None, bot_reply |-> NoReply, received |-> 0, replies |-> 0]

NoSessions == [s \in 1..NumSessions |-> Idle]

InitEngine(catalogs) ==
    \E spacy_ok \in BOOLEAN, file \in FileStates, content \in catalogs :
        LET e == EngineInit(spacy_ok, file, content)
        IN  /\ source = [spacy_ok |-> spacy_ok, file |-> file, gemini_key |-> TRUE]
            /\ engine = e.engine
            /\ nlp = e.nlp
            /\ intents = e.intents

GetIntent(user_message) ==
    /\ engine = "present"
    /\ call' = [op |-> "get_intent", user_message |-> user_message,
                out |-> get_intent(nlp, intents, user_message)]
    /\ UNCHANGED <<source, nlp, intents, engine, ws>>

GetResponse(intent) ==
    /\ engine = "present"
    /\ \E outcome \in get_response(intent) :
           call' = [op |-> "get_response", intent |-> intent, out |-> outcome]
    /\ UNCHANGED <<source, nlp, intents, engine, ws>>

InitClassify ==
    /\ InitEngine(Catalogs)
    /\ call = NoCall
    /\ ws = NoSessions

NextClassify == \E user_message \in UserMessages : GetIntent(user_message)

SpecClassify == InitClassify /\ [][NextClassify]_vars

InitRespond ==
    /\ InitEngine(SampleCatalogs)
    /\ call = NoCall
    /\ ws = NoSessions

NextRespond == \E intent \in ResponseArgs : GetResponse(intent)

SpecRespond == InitRespond /\ [][NextRespond]_vars

(***************************************************************************)
(* The WebSocket chat loop of main.py.  One session per connection; the    *)
(* awaits of the handler (receive_text, call_gemini_api, send_json) are    *)
(* the points where sessions interleave.                                   *)
(***************************************************************************)
SORRY == "Sorry, I couldn't find that answer right now."

NO_KEY == "Missing GEMINI_API_KEY"

ONLY_TRAINED == "I'm only trained to answer questions about our services and support."

GENERATED == "text of the first candidate"

HttpOutcomes == {"candidates", "no_candidates", "error"}

(* call_gemini_api *)
call_gemini_api(gemini_key, http) ==
    IF ~gemini_key THEN NO_KEY
    ELSE IF http = "candidates" THEN GENERATED
    ELSE ONLY_TRAINED

(* lines 228-236: intent_tag and matched_intent after the classification *)
Classification(engine_, nlp_, intents_, user_msg) ==
    IF engine_ # "present"
    THEN [matched_intent |-> None, intent_tag |-> "unknown"]
    ELSE LET matched_intent == get_intent(nlp_, intents_, user_msg).result
         IN  IF matched_intent = None
             THEN [matched_intent |-> None, intent_tag |-> "unknown"]
             ELSE [matched_intent |-> matched_intent,
                   intent_tag |-> intents_[matched_intent].tag]

(* line 238 *)
AnsweredByEngine(engine_, intent_tag) ==
    engine_ = "present" /\ intent_tag \notin {"fallback", "unknown"}

(* lines 239-242: the replies the engine branch can produce *)
EngineReplies(intents_, matched_intent) ==
    {IF outcome.kind = "return"
     THEN [source |-> "get_response", text |-> outcome.value]
     ELSE [source |-> "except", text |-> SORRY] :
        outcome \in get_response(IF matched_intent = None THEN <<>>
                                 ELSE <<intents_[matched_intent]>>)}

(* lines 214-220 *)
Connect(s) ==
    /\ ws[s].pc = "idle"
    /\ ws' = [ws EXCEPT ![s].pc = "receive"]
    /\ UNCHANGED <<source, nlp, intents, engine, call>>

(* lines 224-252, up to the next await *)
Receive(s, user_msg) ==
    /\ ws[s].pc = "receive"
    /\ ws[s].received < MaxMessages
    /\ LET c == Classification(engine, nlp, intents, user_msg)
           heard == [ws[s] EXCEPT !.user_msg = user_msg,
                                  !.received = @ + 1,
                                  !.matched_intent = c.matched_intent,
                                  !.intent_tag = c.intent_tag]
       IN  IF AnsweredByEngine(engine, c.intent_tag)
           THEN \E bot_reply \in EngineReplies(intents, c.matched_intent) :
                    ws' = [ws EXCEPT ![s] = [heard EXCEPT !.bot_reply = bot_reply,
                                                          !.pc = "send"]]
           ELSE ws' = [ws EXCEPT ![s] = [heard EXCEPT !.pc = "gemini"]]
    /\ UNCHANGED <<source, nlp, intents, engine, call>>

(* line 252: the generative model answers *)
GeminiReturns(s, http) ==
    /\ ws[s].pc = "gemini"
    /\ ws' = [ws EXCEPT ![s].bot_reply =
                            [source |-> "call_gemini_api",
                             text |-> call_gemini_api(source.gemini_key, http)],
                        ![s].pc = "send"]
    /\ UNCHANGED <<source, nlp, intents, engine, call>>

(* lines 254-255: the reply goes out and the loop reads the next message;  *)
(* the locals of the finished iteration are dead and are reset.            *)
Send(s) ==
    /\ ws[s].pc = "send"
    /\ ws' = [ws EXCEPT ![s] = [Idle EXCEPT !.pc = "receive",
                                            !.received = ws[s].received,
                                            !.replies = ws[s].replies + 1]]
    /\ UNCHANGED <<source, nlp, intents, engine, call>>

(* lines 257-264: the peer goes away while the handler waits for a         *)
(* message or sends the reply.                                             *)
Disconnect(s) ==
    /\ ws[s].pc \in {"receive", "send"}
    /\ ws' = [ws EXCEPT ![s].pc = "closed"]
    /\ UNCHANGED <<source, nlp, intents, engine, call>>

InitChat ==
    /\ \E spacy_ok \in BOOLEAN, file \in FileStates, content \in SampleCatalogs,
          gemini_key \in BOOLEAN :
           LET e == EngineInit(spacy_ok, file, content)
           IN  /\ source = [spacy_ok |-> spacy_ok, file |-> file,
                            gemini_key |-> gemini_key]
               /\ engine = e.engine
               /\ nlp = e.nlp
               /\ intents = e.intents
    /\ call = NoCall
    /\ ws = NoSessions

NextChat ==
    \E s \in 1..NumSessions :
        \/ Connect(s)
        \/ \E user_msg \in ChatMessages : Receive(s, user_msg)
        \/ \E http \in HttpOutcomes : GeminiReturns(s, http)
        \/ Send(s)
        \/ Disconnect(s)

SpecChat == InitChat /\ [][NextChat]_vars

(***************************************************************************)
(* Vocabulary of the properties.                                           *)
(***************************************************************************)
Classified == call.op = "get_intent"

Scored == Classified /\ call.out.branch \in {"confident", "below_threshold"}

Responded == call.op = "get_response"

LoadFailed == ~source.spacy_ok \/ source.file # "ok"

HasFallback == \E i \in 1..Len(intents) : intents[i].tag = "fallback"

FirstFallback ==
    CHOOSE i \in 1..Len(intents) :
        /\ intents[i].tag = "fallback"
        /\ \A j \in 1..Len(intents) : intents[j].tag = "fallback" => i <= j

(* |user /\ pattern| / |user \/ pattern|, 0 when the union is empty *)
Jaccard(user, pattern) ==
    IF user \cup pattern = {} THEN Zero
    ELSE <<Cardinality(user \cap pattern), Cardinality(user \cup pattern)>>

MaxOf(S) == IF S = {} THEN Zero ELSE CHOOSE x \in S : \A y \in S : Ge(x, y)

(* the maximum Jaccard similarity over the patterns of intents[i] *)
MaxSimilarity(user, i) ==
    MaxOf({Jaccard(user, preprocess_text(TRUE, intents[i].patterns[k])) :
               k \in 1..Len(intents[i].patterns)})

BestScore == MaxOf({call.out.scores[i] : i \in 1..Len(call.out.scores)})

(* the intents that achieve the best score of the catalog *)
Achievers == {i \in 1..Len(call.out.scores) : Eq(call.out.scores[i], BestScore)}

FirstAchiever == CHOOSE i \in Achievers : \A j \in Achievers : i <= j

(***************************************************************************)
(* C1 as stated: on every loaded catalog every get_intent call returns an  *)
(* intent, never None.                                                     *)
(***************************************************************************)
C1_NeverNone == (Classified /\ ~LoadFailed) => call.out.result # None

(***************************************************************************)
(* C1 amended: get_intent returns the best match, the first intent tagged  *)
(* 'fallback', or None; it returns None exactly when the catalog is empty, *)
(* or when no match is confident and no intent is tagged 'fallback'.       *)
(***************************************************************************)
C1_IntentOrNone ==
    Classified =>
        /\ call.out.result \in 0..Len(intents)
        /\ call.out.result = None <=>
               \/ intents = <<>>
               \/ call.out.branch # "confident" /\ ~HasFallback
        /\ call.out.result # None =>
               \/ /\ call.out.branch = "confident"
                  /\ call.out.result = call.out.best_match_intent
               \/ /\ call.out.branch # "confident"
                  /\ intents[call.out.result].tag = "fallback"

C1_Witness ==
    /\ Classified
    /\ intents # <<>>
    /\ call.out.branch = "below_threshold"
    /\ call.out.result = None

(***************************************************************************)
(* C2 as stated: a text whose normalization is empty is classified as the  *)
(* intent tagged 'fallback', whatever the catalog holds.                   *)
(***************************************************************************)
C2_AlwaysFallback ==
    (Classified /\ ~LoadFailed /\ preprocess_text(nlp, call.user_message) = {}) =>
        /\ call.out.result # None
        /\ intents[call.out.result].tag = "fallback"

(***************************************************************************)
(* C2 amended: a text whose normalization is empty is classified, without  *)
(* scoring any intent, as the first catalog intent tagged 'fallback' when  *)
(* the catalog has one, and as None when it has none.                      *)
(***************************************************************************)
C2_FallbackIfAny ==
    (Classified /\ preprocess_text(nlp, call.user_message) = {}) =>
        /\ call.out.scores = <<>>
        /\ call.out.best_match_intent = None
        /\ HasFallback => call.out.result = FirstFallback
        /\ ~HasFallback => call.out.result = None

C2_Witness ==
    /\ Classified
    /\ nlp
    /\ call.user_message # <<>>
    /\ call.out.branch = "no_keywords"
    /\ call.out.result = 2
    /\ intents[1].patterns # <<>>

(***************************************************************************)
(* C3: the threshold is inclusive.  After a scan the confident branch is   *)
(* taken exactly when the best score is at least 1/4; it returns the best  *)
(* match, and the other branch returns the catalog's fallback intent.      *)
(***************************************************************************)
C3_InclusiveThreshold ==
    Scored =>
        /\ call.out.branch = "confident" <=> BestScore[1] * 4 >= BestScore[2]
        /\ call.out.branch = "confident" =>
               /\ call.out.result # None
               /\ Eq(call.out.scores[call.out.result], BestScore)
        /\ (call.out.branch = "below_threshold" /\ HasFallback) =>
               call.out.result = FirstFallback

C3_Witness ==
    /\ Scored
    /\ BestScore[1] * 4 = BestScore[2]
    /\ call.out.branch = "confident"
    /\ intents[call.out.result].tag # "fallback"
    /\ HasFallback

(***************************************************************************)
(* C4: among the intents that achieve the best score of the catalog the    *)
(* first in catalog order is the best match, and is the one returned when  *)
(* the match is confident.                                                 *)
(***************************************************************************)
C4_FirstWinsTies ==
    Scored =>
        /\ BestScore[1] > 0 => call.out.best_match_intent = FirstAchiever
        /\ call.out.branch = "confident" => call.out.result = FirstAchiever

C4_Witness ==
    /\ Scored
    /\ call.out.branch = "confident"
    /\ \E j \in Achievers : j > call.out.result
    /\ call.out.result = 1

(***************************************************************************)
(* C5 as stated: get_response never raises; for an absent intent and for   *)
(* an empty or malformed response list it returns the apology, otherwise   *)
(* an element of the response list.                                        *)
(***************************************************************************)
C5_NeverRaises ==
    Responded =>
        /\ call.out.kind = "return"
        /\ IF call.intent # <<>> /\ call.intent[1].responses.kind = "list"
              /\ call.intent[1].responses.items # <<>>
           THEN call.out.value \in Range(call.intent[1].responses.items)
           ELSE call.out.value = APOLOGY

(***************************************************************************)
(* C6 as stated: a failed load is propagated to the constructing caller,   *)
(* so no engine exists after it.                                           *)
(***************************************************************************)
C6_LoadFailurePropagates == LoadFailed => engine = "absent"

(***************************************************************************)
(* C7 as stated: with the normalization capability unavailable get_intent  *)
(* returns the intent tagged 'fallback'.                                   *)
(***************************************************************************)
C7_DegradesToFallback ==
    (Classified /\ ~nlp) =>
        /\ call.out.result # None
        /\ intents[call.out.result].tag = "fallback"

(***************************************************************************)
(* C9: the score of each intent is the maximum Jaccard similarity over     *)
(* its patterns (0 for an intent without patterns).                        *)
(***************************************************************************)
C9_ScoreIsMaxJaccard ==
    Scored =>
        /\ call.out.user_keywords # {}
        /\ Len(call.out.scores) = Len(intents)
        /\ \A i \in 1..Len(intents) :
               Eq(call.out.scores[i], MaxSimilarity(call.out.user_keywords, i))

C9_Witness ==
    /\ Scored
    /\ \E i \in 1..Len(intents) :
           /\ Len(intents[i].patterns) = 2
           /\ LET a == Jaccard(call.out.user_keywords,
                               preprocess_text(TRUE, intents[i].patterns[1]))
                  b == Jaccard(call.out.user_keywords,
                               preprocess_text(TRUE, intents[i].patterns[2]))
              IN  /\ Gt(a, b)
                  /\ Gt(b, Zero)
                  /\ Eq(call.out.scores[i], a)

(***************************************************************************)
(* C8: the catalog is read-only after load.  No step of any session, in    *)
(* any interleaving, changes the catalog or the pipeline, and two sessions *)
(* that are answering the same text hold the same classification.          *)
(***************************************************************************)
Answering(s) == ws[s].pc \in {"gemini", "send"}

C10_OneReplyPerMessage ==
    \A s \in 1..NumSessions :
        /\ ws[s].pc = "receive" => ws[s].replies = ws[s].received
        /\ ws[s].pc \in {"gemini", "send"} => ws[s].received = ws[s].replies + 1
        /\ ws[s].pc = "send" =>
               IF engine = "present" /\ ws[s].intent_tag \notin {"fallback", "unknown"}
               THEN ws[s].bot_reply.source = "get_response"
               ELSE ws[s].bot_reply.source = "call_gemini_api"

====
